---- MODULE Spec2Model ----
(***************************************************************************)
(* Session registry and real-time location relay of app1.py.               *)
(*                                                                         *)
(* State: the process-wide session table (active_sessions), the set of     *)
(* live Socket.IO connections kept by the transport, and, per connection,  *)
(* the events the server has emitted to it.  One action per route or       *)
(* Socket.IO handler.  Python's None is the value None; a dict is a        *)
(* function whose domain is the set of keys present.                       *)
(*                                                                         *)
(* A session is what one call of generate_link creates.  The handler       *)
(* stores it under the token it draws without looking the token up, so a   *)
(* token drawn twice replaces the session stored under it by a new one.    *)
(* Properties of "a session" speak of the session currently stored under   *)
(* a key; the history variable reported starts afresh with each creation.  *)
(*                                                                         *)
(* Spec handles every request in one step.  SpecSteps runs                 *)
(* handle_report_location statement by statement in concurrent tasks, as   *)
(* the threading mode of the Socket.IO server (the one socketio.run uses   *)
(* under werkzeug, app1.py:149) runs each event in a thread of its own.    *)
(***************************************************************************)
EXTENDS Naturals, Sequences, FiniteSets, TLC

VARIABLES
    active_sessions,  \* app1.py:26, token -> [name, latitude, longitude, timestamp]
    connected,        \* live connections of the SocketIO server (app1.py:20)
    inbox,            \* per connection: the events emitted to it, in order
    last,             \* history: the request handled by the last step, and its response
    reported,         \* history: per stored session, the last valid report since its creation
    issued,           \* history: the ids returned by generate_link so far
    handled,          \* history: the number of requests handled so far
    task,             \* per handler task of report_location: its position and locals
    writer,           \* history: per stored session, the task that last assigned each field
    live_reports      \* history: per connection, the valid reports handled since its
                      \* connect while it was live

vars == <<active_sessions, connected, inbox, last, reported, issued, handled,
          task, writer, live_reports>>

----------------------------------------------------------------------------
\* Bounds of the model.

\* Requests (HTTP requests and Socket.IO events) explored in one run.
MaxRequests == 6

\* Requests explored in one run when report_location runs statement by
\* statement (SpecSteps).
MaxStepRequests == 4

\* Status codes of the page routes.
HTTP_OK == 200
HTTP_NOT_FOUND == 404

----------------------------------------------------------------------------
\* Values.

None == "None"              \* Python's None
Absent == "<absent>"        \* marks a key that a request dict does not carry
Nothing == "<nothing>"      \* history: the request had no argument / no response

\* The values secrets.token_urlsafe(16) can return (two of the 2^128).
Tokens == {"s1", "s2"}

Conns == {"c1", "c2"}   \* request.sid values

\* The threads that run handle_report_location at the same time.
Tasks == {"h1", "h2"}
NoTask == "<no task>"

\* (latitude, longitude, timestamp) triples a client may send.  "t1" is an
\* older timestamp than "t2".  The first is complete; each of the others
\* misses one field.
FullPayload == <<"40.1", "-73.9", "t2">>
Payloads ==
    { FullPayload,
      <<Absent, "-70.2", "t1">>,
      <<"41.5", Absent, "t1">>,
      <<"41.5", "-70.2", Absent>> }

Fields == {"session_id", "latitude", "longitude", "timestamp"}
LocationFields == {"latitude", "longitude", "timestamp"}

\* The dict carrying exactly the keys that are not Absent.
MkReport(sid, p) ==
    LET full == [session_id |-> sid, latitude |-> p[1],
                 longitude |-> p[2], timestamp |-> p[3]]
        keys == {k \in Fields : full[k] # Absent}
    IN  [k \in keys |-> full[k]]

\* The report_location messages a client may send: every payload for each
\* token (a key of the table or not, as the state has it), reports without a
\* session_id key, with the empty string (falsy) and with a string that is
\* never a token.
Reports ==
    {MkReport(sid, p) : sid \in Tokens, p \in Payloads}
    \cup {MkReport(Absent, p) : p \in {FullPayload, <<Absent, "-70.2", "t1">>}}
    \cup {MkReport("", FullPayload), MkReport("zz", FullPayload)}

\* JSON bodies of POST /generate_link: with a session_name, or without.
NoKeys == [k \in {} |-> None]
NoReport == NoKeys          \* history: no valid report yet for a session
Bodies == {[session_name |-> "X"], NoKeys}

\* ids a page route may be asked for.
PageIds == Tokens \cup {"zz"}

\* Rank of a timestamp on the wall clock (used only to speak of staleness).
TsRank(ts) == IF ts = "t1" THEN 1 ELSE IF ts = "t2" THEN 2 ELSE 0

----------------------------------------------------------------------------
\* Pure parts of the handlers.

\* Variant: data.get(key, "0").
Get_default_zero(d, k) == IF k \in DOMAIN d THEN d[k] ELSE "0"

\* dict.get(key): the value, or None when the key is missing.
Get(d, k) == IF k \in DOMAIN d THEN d[k] ELSE None

\* dict.get(key, default).
GetOr(d, k, default) == IF k \in DOMAIN d THEN d[k] ELSE default

\* Python truthiness of a session_id value: None and "" are falsy.
Truthy(v) == v # None /\ v # ""

\* app1.py:69, f"Session {now:%Y-%m-%d %H:%M}" (the clock is not modelled).
DefaultName == "Session <now>"

\* app1.py:69
SessionName(body) == GetOr(body, "session_name", DefaultName)

\* Variant: a new session starts at the origin instead of at None.
NewSession_zeroed(name) ==
    [name |-> name, latitude |-> "0", longitude |-> "0", timestamp |-> None]

\* app1.py:71-76, the record of a new session.
NewSession(name) ==
    [name |-> name, latitude |-> None, longitude |-> None, timestamp |-> None]

\* Variant: active_sessions = {session_id: record}, a rebinding of the table.
StoreSession_rebind(table, id, rec) == [k \in {id} |-> rec]

\* app1.py:71, active_sessions[session_id] = record (insert or overwrite).
StoreSession(table, id, rec) ==
    [k \in DOMAIN table \cup {id} |-> IF k = id THEN rec ELSE table[k]]

\* Variant: if session_id: (no membership test).
SessionKnown_truthy_only(table, session_id) == Truthy(session_id)

\* app1.py:120, the validation of a report.
SessionKnown(table, session_id) ==
    Truthy(session_id) /\ session_id \in DOMAIN table

\* Variant: the report is stored only when its timestamp is not older than
\* the stored one.
UpdateLocation_keep_newest(table, session_id, latitude, longitude, timestamp) ==
    IF TsRank(timestamp) < TsRank(table[session_id].timestamp)
    THEN table
    ELSE [table EXCEPT ![session_id].latitude = latitude,
                       ![session_id].longitude = longitude,
                       ![session_id].timestamp = timestamp]

\* Variant: the assignments run over every session of the table.
UpdateLocation_all_sessions(table, session_id, latitude, longitude, timestamp) ==
    [k \in DOMAIN table |->
        [table[k] EXCEPT !.latitude = latitude, !.longitude = longitude,
                         !.timestamp = timestamp]]

\* app1.py:122-124, the three assignments.
UpdateLocation(table, session_id, latitude, longitude, timestamp) ==
    [table EXCEPT ![session_id].latitude = latitude,
                  ![session_id].longitude = longitude,
                  ![session_id].timestamp = timestamp]

\* Variant: the emit is written before the three assignments.
ReportOrder_emit_first == <<"emit", "latitude", "longitude", "timestamp">>

\* app1.py:122-133, the statements of the if branch in program order: the
\* three assignments, then the emit.
ReportOrder == <<"latitude", "longitude", "timestamp", "emit">>

\* The statement a task runs after statement pc ("done" after the last).
After(pc) ==
    LET i == CHOOSE j \in 1..Len(ReportOrder) : ReportOrder[j] = pc
    IN  IF i < Len(ReportOrder) THEN ReportOrder[i + 1] ELSE "done"

\* app1.py:122, 123 or 124: active_sessions[session_id][field] = value.
AssignField(table, session_id, field, value) ==
    [table EXCEPT ![session_id][field] = value]

\* app1.py:128-133, the payload of the location_update event.
LocationUpdate(session_id, latitude, longitude, timestamp) ==
    [event |-> "location_update", session_id |-> session_id,
     latitude |-> latitude, longitude |-> longitude, timestamp |-> timestamp]

\* Variant: emit(..., broadcast=True, include_self=False).
Broadcast_skip_sender(inb, live, sender, ev) ==
    [c \in Conns |-> IF c \in live /\ c # sender THEN Append(inb[c], ev) ELSE inb[c]]

\* Variant: an event equal to the last one a connection got is not sent again.
Broadcast_dedup(inb, live, sender, ev) ==
    [c \in Conns |->
        IF c \in live /\ ~(Len(inb[c]) > 0 /\ inb[c][Len(inb[c])] = ev)
        THEN Append(inb[c], ev) ELSE inb[c]]

\* app1.py:128-133, emit(..., broadcast=True): every live connection, the
\* sender included (include_self defaults to True).
Broadcast(inb, live, sender, ev) ==
    [c \in Conns |-> IF c \in live THEN Append(inb[c], ev) ELSE inb[c]]

\* app1.py:42-48
RecipientResponse(table, session_id) ==
    IF session_id \notin DOMAIN table
    THEN [status |-> HTTP_NOT_FOUND, body |-> "Session not found or expired."]
    ELSE [status |-> HTTP_OK, body |-> "recipient.html", session_id |-> session_id,
          session_name |-> GetOr(table[session_id], "name", "Unnamed Session")]

\* Variant: the route reads active_sessions.get(session_id, {}) with no 404.
TrackerResponse_no_check(table, session_id) ==
    [status |-> HTTP_OK, body |-> "tracker.html", session_id |-> session_id,
     session_name |-> IF session_id \in DOMAIN table
                      THEN GetOr(table[session_id], "name", "Unnamed Session")
                      ELSE "Unnamed Session"]

\* app1.py:55-60
TrackerResponse(table, session_id) ==
    IF session_id \notin DOMAIN table
    THEN [status |-> HTTP_NOT_FOUND, body |-> "Session not found or expired."]
    ELSE [status |-> HTTP_OK, body |-> "tracker.html", session_id |-> session_id,
          session_name |-> GetOr(table[session_id], "name", "Unnamed Session")]

\* app1.py:83-88
LinkResponse(session_id, session_name) ==
    [status |-> HTTP_OK, session_id |-> session_id, session_name |-> session_name,
     recipient_url |-> <<"/track/", session_id>>,
     tracker_url |-> <<"/tracker/", session_id>>]

----------------------------------------------------------------------------
\* History bookkeeping: the request of a step, its response, and whether it
\* is a report_location identical to the one handled by the step before.

Request(op, conn, arg, resp) ==
    [op |-> op, conn |-> conn, arg |-> arg, resp |-> resp,
     again |-> (last.op = op /\ op = "report_location" /\ last.arg = arg)]

\* live_reports after a report_location carrying data is handled with the
\* connections of live connected: one more for each of them when the report
\* names a key of the table.
CountValid(data, live) ==
    IF "session_id" \in DOMAIN data /\ data.session_id \in DOMAIN active_sessions
    THEN [c \in Conns |-> IF c \in live THEN live_reports[c] + 1 ELSE live_reports[c]]
    ELSE live_reports

----------------------------------------------------------------------------
\* The state after the module is loaded.
Init ==
    /\ active_sessions = NoKeys
    /\ connected = {}
    /\ inbox = [c \in Conns |-> <<>>]
    /\ last = [op |-> "start", conn |-> Nothing, arg |-> Nothing,
               resp |-> Nothing, again |-> FALSE]
    /\ reported = NoKeys
    /\ issued = {}
    /\ handled = 0
    /\ task = [h \in Tasks |-> [pc |-> "idle", conn |-> Nothing, data |-> NoKeys,
                               wrote |-> {}]]
    /\ writer = NoKeys
    /\ live_reports = [c \in Conns |-> 0]

\* Every handler below handles one more request.
Handle == handled < MaxRequests /\ handled' = handled + 1

\* GET /
index ==
    /\ Handle
    /\ last' = Request("index", Nothing, Nothing,
                       [status |-> HTTP_OK, body |-> "index.html"])
    /\ UNCHANGED <<active_sessions, connected, inbox, reported, issued, task, writer, live_reports>>

\* GET /track/<session_id>
recipient_page(session_id) ==
    /\ Handle
    /\ last' = Request("recipient_page", Nothing, session_id,
                       RecipientResponse(active_sessions, session_id))
    /\ UNCHANGED <<active_sessions, connected, inbox, reported, issued, task, writer, live_reports>>

\* GET /tracker/<session_id>
tracker_page(session_id) ==
    /\ Handle
    /\ last' = Request("tracker_page", Nothing, session_id,
                       TrackerResponse(active_sessions, session_id))
    /\ UNCHANGED <<active_sessions, connected, inbox, reported, issued, task, writer, live_reports>>

\* POST /generate_link.  The token is whatever secrets.token_urlsafe(16)
\* returns: the handler does not look it up in the table before storing.
generate_link(body, session_id) ==
    LET session_name == SessionName(body) IN
    /\ Handle
    /\ active_sessions' = StoreSession(active_sessions, session_id, NewSession(session_name))
    /\ last' = Request("generate_link", Nothing, body,
                       LinkResponse(session_id, session_name))
    /\ reported' = [k \in DOMAIN reported \cup {session_id} |->
                        IF k = session_id THEN NoReport ELSE reported[k]]
    /\ issued' = issued \cup {session_id}
    /\ writer' = [k \in DOMAIN writer \cup {session_id} |->
                      IF k = session_id THEN [f \in LocationFields |-> NoTask]
                      ELSE writer[k]]
    /\ UNCHANGED <<connected, inbox, task, live_reports>>

\* Variant: on connect the handler emits the last-known location of a
\* session to the new connection.
handle_connect_replay(sid) ==
    LET located == {s \in DOMAIN active_sessions :
                      active_sessions[s].timestamp # None
                      \/ active_sessions[s].latitude # None}
        replay == IF located = {} THEN <<>>
                  ELSE LET s == CHOOSE k \in located : TRUE
                       IN  <<LocationUpdate(s, active_sessions[s].latitude,
                                            active_sessions[s].longitude,
                                            active_sessions[s].timestamp)>>
    IN
    /\ Handle
    /\ sid \notin connected
    /\ connected' = connected \cup {sid}
    /\ inbox' = [inbox EXCEPT ![sid] = replay]
    /\ last' = Request("connect", sid, Nothing, Nothing)
    /\ live_reports' = [live_reports EXCEPT ![sid] = 0]
    /\ UNCHANGED <<active_sessions, reported, issued, task, writer>>

\* Socket.IO connect: the transport registers the connection, the handler logs.
handle_connect(sid) ==
    /\ Handle
    /\ sid \notin connected
    /\ connected' = connected \cup {sid}
    /\ inbox' = [inbox EXCEPT ![sid] = <<>>]
    /\ last' = Request("connect", sid, Nothing, Nothing)
    /\ live_reports' = [live_reports EXCEPT ![sid] = 0]
    /\ UNCHANGED <<active_sessions, reported, issued, task, writer>>

\* Variant: on disconnect the handler clears the last-known location of
\* every session.
handle_disconnect_clears(sid) ==
    /\ Handle
    /\ sid \in connected
    /\ connected' = connected \ {sid}
    /\ active_sessions' = [k \in DOMAIN active_sessions |->
                              NewSession(active_sessions[k].name)]
    /\ last' = Request("disconnect", sid, Nothing, Nothing)
    /\ UNCHANGED <<inbox, reported, issued, task, writer, live_reports>>

\* Socket.IO disconnect: the transport drops the connection, the handler logs.
handle_disconnect(sid) ==
    /\ Handle
    /\ sid \in connected
    /\ connected' = connected \ {sid}
    /\ last' = Request("disconnect", sid, Nothing, Nothing)
    /\ UNCHANGED <<active_sessions, inbox, reported, issued, task, writer, live_reports>>

\* Socket.IO report_location from live connection sid.
handle_report_location(sid, data) ==
    LET session_id == Get(data, "session_id")
        latitude == Get(data, "latitude")
        longitude == Get(data, "longitude")
        timestamp == Get(data, "timestamp")
    IN
    /\ Handle
    /\ sid \in connected
    /\ last' = Request("report_location", sid, data, Nothing)
    /\ IF SessionKnown(active_sessions, session_id)
       THEN /\ active_sessions' = UpdateLocation(active_sessions, session_id,
                                                 latitude, longitude, timestamp)
            /\ inbox' = Broadcast(inbox, connected, sid,
                                  LocationUpdate(session_id, latitude, longitude, timestamp))
       ELSE UNCHANGED <<active_sessions, inbox>>
    /\ reported' = IF "session_id" \in DOMAIN data /\ data.session_id \in DOMAIN reported
                   THEN [reported EXCEPT ![data.session_id] = data]
                   ELSE reported
    /\ live_reports' = CountValid(data, connected)
    /\ UNCHANGED <<connected, issued, task, writer>>

Next ==
    \/ index
    \/ \E id \in PageIds : recipient_page(id)
    \/ \E id \in PageIds : tracker_page(id)
    \/ \E body \in Bodies, id \in Tokens : generate_link(body, id)
    \/ \E c \in Conns : handle_connect(c)
    \/ \E c \in Conns : handle_disconnect(c)
    \/ \E c \in Conns, data \in Reports : handle_report_location(c, data)

Spec == Init /\ [][Next]_vars

----------------------------------------------------------------------------
\* handle_report_location statement by statement, one task per event.

IdleTask == [pc |-> "idle", conn |-> Nothing, data |-> NoKeys, wrote |-> {}]

\* app1.py:108-120 and 136-137: a free task takes a report_location from
\* live connection sid, reads its fields and tests the session id; the else
\* branch only prints.
report_begin(h, sid, data) ==
    /\ Handle
    /\ task[h].pc = "idle"
    /\ sid \in connected
    /\ last' = Request("report_location", sid, data, Nothing)
    /\ task' = [task EXCEPT ![h] =
                  IF SessionKnown(active_sessions, Get(data, "session_id"))
                  THEN [pc |-> ReportOrder[1], conn |-> sid, data |-> data,
                        wrote |-> {}]
                  ELSE IdleTask]
    /\ reported' = IF "session_id" \in DOMAIN data /\ data.session_id \in DOMAIN reported
                   THEN [reported EXCEPT ![data.session_id] = data]
                   ELSE reported
    /\ UNCHANGED <<active_sessions, connected, inbox, issued, writer, live_reports>>

\* app1.py:122, 123 or 124: the task's next assignment.
report_assign(h) ==
    LET field == task[h].pc
        session_id == Get(task[h].data, "session_id")
    IN
    /\ field \in LocationFields
    /\ active_sessions' = AssignField(active_sessions, session_id, field,
                                      Get(task[h].data, field))
    /\ writer' = [writer EXCEPT ![session_id][field] = h]
    /\ task' = [task EXCEPT ![h] =
                  IF After(field) = "done" THEN IdleTask
                  ELSE [task[h] EXCEPT !.pc = After(field),
                                       !.wrote = task[h].wrote \cup {field}]]
    /\ UNCHANGED <<connected, inbox, last, reported, issued, handled, live_reports>>

\* app1.py:128-135: the task broadcasts the event and returns.
report_emit(h) ==
    LET data == task[h].data IN
    /\ task[h].pc = "emit"
    /\ inbox' = Broadcast(inbox, connected, task[h].conn,
                          LocationUpdate(Get(data, "session_id"), Get(data, "latitude"),
                                         Get(data, "longitude"), Get(data, "timestamp")))
    /\ task' = [task EXCEPT ![h] =
                  IF After("emit") = "done" THEN IdleTask
                  ELSE [task[h] EXCEPT !.pc = After("emit")]]
    /\ live_reports' = CountValid(data, connected)
    /\ UNCHANGED <<active_sessions, connected, last, reported, issued, handled, writer>>

\* SpecSteps explores runs of at most MaxStepRequests requests.
StepBudget == handled < MaxStepRequests

NextSteps ==
    \/ StepBudget /\ index
    \/ StepBudget /\ \E id \in PageIds : recipient_page(id)
    \/ StepBudget /\ \E id \in PageIds : tracker_page(id)
    \/ StepBudget /\ \E body \in Bodies, id \in Tokens : generate_link(body, id)
    \/ StepBudget /\ \E c \in Conns : handle_connect(c)
    \/ StepBudget /\ \E c \in Conns : handle_disconnect(c)
    \/ StepBudget /\ \E h \in Tasks, c \in Conns, data \in Reports : report_begin(h, c, data)
    \/ \E h \in Tasks : report_assign(h)
    \/ \E h \in Tasks : report_emit(h)

SpecSteps == Init /\ [][NextSteps]_vars

----------------------------------------------------------------------------
\* Vocabulary of the properties.  In a step, last' is the request the step
\* handles; in a state, last is the request handled by the step into it.

\* The session_id a report names, None when it carries none.
Named(data) == IF "session_id" \in DOMAIN data THEN data.session_id ELSE None

\* The location_update event that carries the fields submitted in data
\* (a missing field reads as None).
Submitted(data) ==
    [event |-> "location_update",
     session_id |-> Named(data),
     latitude |-> IF "latitude" \in DOMAIN data THEN data.latitude ELSE None,
     longitude |-> IF "longitude" \in DOMAIN data THEN data.longitude ELSE None,
     timestamp |-> IF "timestamp" \in DOMAIN data THEN data.timestamp ELSE None]

\* The three location fields of a record, in order.
Location(rec) == <<rec.latitude, rec.longitude, rec.timestamp>>

NoLocation == <<None, None, None>>

\* C1: a report_location whose session_id is absent or is not a key of the
\* session table leaves the table as it is and delivers no event (no
\* location_update, no error event) to any connection, the sender included.
C1_UnknownReportDropped ==
    [][ (last'.op = "report_location"
         /\ Named(last'.arg) \notin DOMAIN active_sessions)
        => (active_sessions' = active_sessions /\ inbox' = inbox) ]_vars

\* C1 witness: such a report was handled with both connections live and a
\* session with a reported location in the table.
C1_Witness ==
    /\ last.op = "report_location"
    /\ Named(last.arg) \notin DOMAIN active_sessions
    /\ connected = Conns
    /\ \E s \in DOMAIN active_sessions : Location(active_sessions[s]) # NoLocation

\* C2: a report_location naming a key of the table appends exactly one
\* location_update, carrying the submitted session_id, latitude, longitude
\* and timestamp, to every live connection (the sender included, whatever
\* the session), and nothing to a connection that is not live.
C2_BroadcastToAll ==
    [][ (last'.op = "report_location"
         /\ Named(last'.arg) \in DOMAIN active_sessions)
        => \A c \in Conns :
             inbox'[c] = IF c \in connected
                         THEN Append(inbox[c], Submitted(last'.arg))
                         ELSE inbox[c] ]_vars

\* C2 witness: a valid report handled with two live connections, the one
\* that is not the sender having last received an update of another session.
C2_Witness ==
    /\ last.op = "report_location"
    /\ Named(last.arg) \in DOMAIN active_sessions
    /\ connected = Conns
    /\ \E c \in Conns \ {last.conn} :
         /\ Len(inbox[c]) = 2
         /\ inbox[c][2] = Submitted(last.arg)
         /\ inbox[c][1].session_id # Named(last.arg)

\* Whether a report misses one of the four expected fields.
Malformed(data) == DOMAIN data # Fields

\* C3 as stated: a report missing any expected field is dropped, even when
\* the session it names is known: no change of the table, no event.
C3_MalformedDropped ==
    [][ (last'.op = "report_location" /\ Malformed(last'.arg))
        => (active_sessions' = active_sessions /\ inbox' = inbox) ]_vars

\* C3 amended: a report without session_id is dropped; a report that names a
\* key of the table and misses latitude, longitude or timestamp is handled
\* like a complete one, the missing fields stored and broadcast as None.
C3_MissingFieldsAsNone ==
    [][ (last'.op = "report_location" /\ Malformed(last'.arg))
        => IF "session_id" \notin DOMAIN last'.arg
           THEN active_sessions' = active_sessions /\ inbox' = inbox
           ELSE LET s == last'.arg.session_id
                    ev == Submitted(last'.arg)
                IN  s \in DOMAIN active_sessions =>
                      /\ Location(active_sessions'[s])
                           = <<ev.latitude, ev.longitude, ev.timestamp>>
                      /\ \A c \in connected : inbox'[c] = Append(inbox[c], ev) ]_vars

\* C3 witness: a report without latitude, naming a stored session whose
\* latitude was set before, has been handled: the latitude is None again and
\* the sender holds the event with latitude None.
C3_Witness ==
    /\ last.op = "report_location"
    /\ "latitude" \notin DOMAIN last.arg
    /\ Named(last.arg) \in DOMAIN active_sessions
    /\ active_sessions[Named(last.arg)].latitude = None
    /\ Len(inbox[last.conn]) = 2
    /\ inbox[last.conn][1].session_id = Named(last.arg)
    /\ inbox[last.conn][1].latitude # None
    /\ inbox[last.conn][2].latitude = None

\* C4: the location stored for a session is that of the last valid report
\* handled for it since it was created, whatever the timestamps (None, None,
\* None when there has been none).
C4_LastWriteWins ==
    \A s \in DOMAIN active_sessions :
        /\ s \in DOMAIN reported
        /\ Location(active_sessions[s])
             = IF reported[s] = NoReport THEN NoLocation
               ELSE <<Submitted(reported[s]).latitude,
                      Submitted(reported[s]).longitude,
                      Submitted(reported[s]).timestamp>>

\* C4 witness: a connection received, for one session, a report stamped t2
\* and then a report stamped t1, and the table holds the t1 one.
C4_Witness ==
    /\ last.op = "report_location"
    /\ \E c \in connected :
         /\ Len(inbox[c]) = 2
         /\ inbox[c][1].session_id = inbox[c][2].session_id
         /\ TsRank(inbox[c][2].timestamp) > 0
         /\ TsRank(inbox[c][1].timestamp) > TsRank(inbox[c][2].timestamp)
         /\ inbox[c][2].session_id \in DOMAIN active_sessions
         /\ Location(active_sessions[inbox[c][2].session_id])
              = <<inbox[c][2].latitude, inbox[c][2].longitude, inbox[c][2].timestamp>>

\* C5: right after generate_link with session_name X the record under the
\* returned id has name X and no location, and a stored session has no
\* location as long as no valid report has been handled for it.
C5_NewSessionIsBlank ==
    /\ last.op = "generate_link" =>
         /\ last.resp.session_id \in DOMAIN active_sessions
         /\ Location(active_sessions[last.resp.session_id]) = NoLocation
         /\ "session_name" \in DOMAIN last.arg =>
              active_sessions[last.resp.session_id].name = last.arg.session_name
    /\ \A s \in DOMAIN active_sessions :
         (s \in DOMAIN reported /\ reported[s] = NoReport)
           => Location(active_sessions[s]) = NoLocation

\* C5 witness: a session named "X" is still blank after a valid report for
\* the other session was handled.
C5_Witness ==
    /\ last.op = "report_location"
    /\ Named(last.arg) \in DOMAIN active_sessions
    /\ \E s \in DOMAIN active_sessions \ {Named(last.arg)} :
         /\ active_sessions[s].name = "X"
         /\ reported[s] = NoReport
         /\ Location(active_sessions[s]) = NoLocation
\* C6: no step removes a key from the session table.
C6_KeysAppendOnly ==
    [][ DOMAIN active_sessions \subseteq DOMAIN active_sessions' ]_vars

\* C6 witness: both tokens are keys, locations were reported, and the last
\* request was a disconnect.
C6_Witness ==
    /\ last.op = "disconnect"
    /\ DOMAIN active_sessions = Tokens
    /\ \E s \in Tokens : Location(active_sessions[s]) # NoLocation

\* C7 as stated: generate_link returns an id that was not a key, adds exactly
\* that key, and leaves every record already in the table as it was.
C7_FreshIdentity ==
    [][ last'.op = "generate_link"
        => /\ last'.resp.session_id \notin DOMAIN active_sessions
           /\ DOMAIN active_sessions'
                = DOMAIN active_sessions \cup {last'.resp.session_id}
           /\ \A k \in DOMAIN active_sessions :
                active_sessions'[k] = active_sessions[k] ]_vars

\* Whether the step creates a session under key s (anew, if s was a key).
Creates(s) == last'.op = "generate_link" /\ last'.resp.session_id = s

\* C8: a valid report for S changes nothing of the table but S's latitude,
\* longitude and timestamp; and a step that changes the record of a session
\* it does not create anew is the handling of a valid report bearing that
\* session's id.
C8_ReportFrame ==
    [][ /\ (last'.op = "report_location"
            /\ Named(last'.arg) \in DOMAIN active_sessions)
           => /\ DOMAIN active_sessions' = DOMAIN active_sessions
              /\ \A t \in DOMAIN active_sessions :
                   /\ active_sessions'[t].name = active_sessions[t].name
                   /\ t # Named(last'.arg)
                        => active_sessions'[t] = active_sessions[t]
        /\ \A s \in DOMAIN active_sessions :
             (s \in DOMAIN active_sessions'
              /\ active_sessions'[s] # active_sessions[s]
              /\ ~Creates(s))
               => (last'.op = "report_location" /\ Named(last'.arg) = s) ]_vars

\* C8 witness: a valid report changed the location of its session while the
\* other session keeps a different, earlier reported location.
C8_Witness ==
    /\ last.op = "report_location"
    /\ Named(last.arg) \in DOMAIN active_sessions
    /\ \E t \in DOMAIN active_sessions \ {Named(last.arg)} :
         /\ Location(active_sessions[t]) # NoLocation
         /\ Location(active_sessions[t]) # Location(active_sessions[Named(last.arg)])
         /\ active_sessions[t].name # active_sessions[Named(last.arg)].name

\* C9: when a valid report is handled a second time, right after an
\* identical one, every live connection gets a second, equal location_update
\* after the first, and the table stays as the first handling left it.
C9_ReportIdempotent ==
    [][ (last'.op = "report_location" /\ last'.again
         /\ Named(last'.arg) \in DOMAIN active_sessions)
        => /\ active_sessions' = active_sessions
           /\ \A c \in connected :
                /\ Len(inbox[c]) >= 1
                /\ inbox[c][Len(inbox[c])] = Submitted(last'.arg)
                /\ inbox'[c] = Append(inbox[c], Submitted(last'.arg)) ]_vars

\* C9 witness: the same valid report was handled twice in a row with both
\* connections live, each holding the two events.
C9_Witness ==
    /\ last.op = "report_location"
    /\ last.again
    /\ Named(last.arg) \in DOMAIN active_sessions
    /\ connected = Conns
    /\ \A c \in Conns :
         /\ Len(inbox[c]) = 2
         /\ inbox[c][1] = Submitted(last.arg)
         /\ inbox[c][2] = Submitted(last.arg)

NotFoundText == "Session not found or expired."

\* C10: a page route answers 404 with the not-found text exactly when the
\* requested id is not a key of the table and 200 otherwise; for an id that
\* generate_link has returned, both routes answer 200 in every later state.
C10_PageStatus ==
    /\ last.op \in {"recipient_page", "tracker_page"} =>
         IF last.arg \in DOMAIN active_sessions
         THEN last.resp.status = 200
         ELSE last.resp.status = 404 /\ last.resp.body = NotFoundText
    /\ \A id \in issued :
         /\ RecipientResponse(active_sessions, id).status = 200
         /\ TrackerResponse(active_sessions, id).status = 200

\* C10 witness: the tracker page of an issued id was served after a location
\* had been reported for it.
C10_Witness ==
    /\ last.op = "tracker_page"
    /\ last.arg \in issued
    /\ last.resp.status = 200
    /\ reported[last.arg] # NoReport
\* C11: connect, disconnect and the two page routes leave the session table
\* as it is and deliver no event: no connection's events grow, and a new
\* connection starts with none.  A disconnect, the reporter's included,
\* keeps every session's last-known location.
C11_LifecycleAndPagesPure ==
    [][ last'.op \in {"connect", "disconnect", "recipient_page", "tracker_page"}
        => /\ active_sessions' = active_sessions
           /\ \A c \in Conns :
                IF last'.op = "connect" /\ last'.conn = c
                THEN inbox'[c] = <<>>
                ELSE inbox'[c] = inbox[c] ]_vars

\* C11 witness: a session was created, one connection joined, reported a
\* location and left: the table still holds the location it reported.
C11_Witness ==
    /\ handled = 4
    /\ last.op = "disconnect"
    /\ connected = {}
    /\ Len(inbox[last.conn]) = 1
    /\ inbox[last.conn][1].session_id \in DOMAIN active_sessions
    /\ Location(active_sessions[inbox[last.conn][1].session_id])
         = <<inbox[last.conn][1].latitude, inbox[last.conn][1].longitude,
             inbox[last.conn][1].timestamp>>
    /\ Location(active_sessions[inbox[last.conn][1].session_id]) # NoLocation
\* Whether the step is task h running the emit of its report.
Emits(h) == task[h].pc = "emit" /\ task'[h] # task[h]

\* C12: when a task broadcasts the location_update of its report it has
\* made its three assignments, and every field of the session's record that
\* no other task (and no new creation under the key) has assigned since
\* holds the report's value: no connection holds the event of a report that
\* is not yet written.
C12_WriteBeforeBroadcast ==
    [][ \A h \in Tasks :
          Emits(h) =>
            LET ev == Submitted(task[h].data)
                s == ev.session_id
            IN  /\ task[h].wrote = LocationFields
                /\ s \in DOMAIN active_sessions
                /\ \A f \in LocationFields :
                     writer[s][f] = h => active_sessions[s][f] = ev[f] ]_vars

\* C12 witness: a live connection holds the event of a report whose task
\* has returned, the record holds that report's values, and another task
\* has begun a report for the same session without having written yet.
C12_Witness ==
    \E c \in connected, h \in Tasks, h2 \in Tasks :
        /\ Len(inbox[c]) = 1
        /\ inbox[c][1].session_id \in DOMAIN active_sessions
        /\ \A f \in LocationFields :
             /\ writer[inbox[c][1].session_id][f] = h
             /\ active_sessions[inbox[c][1].session_id][f] = inbox[c][1][f]
        /\ task[h].pc = "idle"
        /\ task[h2].pc = "latitude"
        /\ Named(task[h2].data) = inbox[c][1].session_id
        /\ Submitted(task[h2].data) # inbox[c][1]

\* Whether task h has made some but not all of its three assignments.
MidUpdate(h) == task[h].wrote # {} /\ task[h].wrote # LocationFields

\* C13 as stated: when no task is mid-update, the location of a session whose
\* three fields were assigned by report tasks is the latitude, longitude and
\* timestamp of one and the same report for that session.
C13_NoMixedLocation ==
    (\A h \in Tasks : ~MidUpdate(h)) =>
        \A s \in DOMAIN active_sessions :
            (\A f \in LocationFields : writer[s][f] \in Tasks) =>
                \E d \in Reports :
                    /\ Named(d) = s
                    /\ Location(active_sessions[s])
                         = <<Submitted(d).latitude, Submitted(d).longitude,
                             Submitted(d).timestamp>>
\* C14: the events a connection holds are as many as the valid reports
\* handled since its connect while it was live: none for a connection that
\* has never been live, none replayed to a connection that joins after a
\* report, none added once it has disconnected.
C14_EventsOnlyWhileLive ==
    \A c \in Conns : Len(inbox[c]) = live_reports[c]

\* C14 witness: one connection got a report's event and left; the other
\* joined afterwards and sent a different report: each holds one event only,
\* its own.
C14_Witness ==
    /\ last.op = "report_location"
    /\ Named(last.arg) \in DOMAIN active_sessions
    /\ connected = {last.conn}
    /\ inbox[last.conn] = <<Submitted(last.arg)>>
    /\ \E c \in Conns \ connected :
         /\ Len(inbox[c]) = 1
         /\ inbox[c][1] # Submitted(last.arg)
         /\ inbox[c][1].session_id = Named(last.arg)

====
